---- MODULE Spec2Model ----
(***************************************************************************)
(* Shop Inventory v0.1 (src/main.cpp): the product catalog, the inventory  *)
(* store and the interactive shell, as a state machine with one step per   *)
(* console read.                                                           *)
(*                                                                         *)
(* Conventions.                                                            *)
(*  - Inventory::items is a sequence indexed 1..Len; an iterator is the    *)
(*    index it points at, items.end() is Len+1 and the value-initialised   *)
(*    iterator ItemPtr{} is NullPtr.                                       *)
(*  - A price is held in hundredths of a pound (the inputs have at most    *)
(*    two decimals); "%16.2f" prints it as pounds and pence.               *)
(*  - out is what the last step printed, menus and prompts left out (they  *)
(*    are a function of pc).                                               *)
(*  - prev, lastop, added, onlyAdds and asked are history variables: they  *)
(*    record what the run did and never influence it.                      *)
(***************************************************************************)
EXTENDS Integers, Sequences, FiniteSets, TLC

VARIABLES items,      \* Inventory::items
          capacity,   \* items.capacity()
          pc,         \* where the shell waits for input
          caller,     \* who called handle_add_option: "run", "edit" or "none"
          item,       \* handle_add_option's local Item
          pitem,      \* handle_search_option's local iterator
          pred,       \* the predicate handed to Inventory::search
          opt,        \* the option character read last
          out,        \* what the last step printed
          ub,         \* TRUE once erase was given an iterator it may not take
          prev,       \* history: the inventory before the last step
          lastop,     \* history: the inventory operation of the last step
          added,      \* history: the items added, while nothing was removed
          onlyAdds,   \* history: no remove and no edit happened so far
          asked       \* history: the predicate the last step searched for

vars == <<items, capacity, pc, caller, item, pitem, pred, opt, out, ub,
          prev, lastop, added, onlyAdds, asked>>

---------------------------------------------------------------------------
(* Bounds of the model.                                                    *)

\* the main menu offers "add" only below this many items
MaxItems == 3
\* the catalog specification keeps the inventory this short
MaxCatalogItems == 1
\* category ids from Invalid - OutOfRange to Count + OutOfRange are entered
OutOfRange == 2

---------------------------------------------------------------------------
(* Product catalog.                                                        *)

MAX_ITEMS == 30

Invalid            == -1
Dresses            == 0
CropTops           == 1
SweatshirtsHoodies == 2
Blouses            == 3
Skirts             == 4
Shorts             == 5
Jeans              == 6
MatchingSets       == 7
Swimwear           == 8
Accessories        == 9
Count              == 10

PRODUCT_NAMES ==
    (Dresses :> "Dresses") @@
    (CropTops :> "Crop Tops") @@
    (SweatshirtsHoodies :> "Sweatshirts & Hoodies") @@
    (Blouses :> "Blouses") @@
    (Skirts :> "Skirts") @@
    (Shorts :> "Shorts") @@
    (Jeans :> "Jeans") @@
    (MatchingSets :> "MatchingSets") @@
    (Swimwear :> "Swimwear") @@
    (Accessories :> "Accessories")

\* what a read of PRODUCT_NAMES past its bounds yields (none happens)
OutOfBounds == "<read outside PRODUCT_NAMES>"

\* PRODUCT_NAMES[i], an array of Count elements
NameAt(i) == IF i \in 0..(Count - 1) THEN PRODUCT_NAMES[i] ELSE OutOfBounds

\* is_valid_product with the two sentinels let through (<= for <)
is_valid_product_closed(prod) == prod >= Invalid /\ prod <= Count

\* is_valid_product
is_valid_product(prod) == prod > Invalid /\ prod < Count

\* get_product_name without its validity test
get_product_name_unchecked(prod) == NameAt(prod)

\* get_product_name
get_product_name(prod) ==
    IF ~is_valid_product(prod) THEN "" ELSE NameAt(prod)

\* one printed block: a line of text, or a table with its rows
Line(text) == [text |-> text, rows |-> <<>>]

list_products ==
    [text |-> "Product list: ",
     rows |-> [k \in 1..Count |-> [idx |-> k - 1, name |-> NameAt(k - 1)]]]

MsgInvalid  == "Invalid option selected. Please try again."
MsgNotFound == "Item not found. Try adding an item."
MsgAdded    == "Added item"

---------------------------------------------------------------------------
(* Inventory store.                                                        *)

NullPtr == 0

\* Item item; before any field is read in
NoItem == [id |-> Invalid, name |-> "", price |-> 0, nstock |-> 0]

Item(prod, name, price, nstock) ==
    [id |-> prod, name |-> name, price |-> price, nstock |-> nstock]

\* the lambdas of handle_search_option, by what they capture
ByName(name) == [by |-> "name", name |-> name, id |-> Invalid]
ById(prod)   == [by |-> "id", name |-> "", id |-> prod]
NoPred       == [by |-> "none", name |-> "", id |-> Invalid]

Holds(p, it) ==
    CASE p.by = "name" -> it.name = p.name
      [] p.by = "id"   -> it.id = p.id
      [] OTHER         -> FALSE

end(its) == Len(its) + 1

\* Inventory::add inserting at begin() instead of the end
add_front(its, it) == <<it>> \o its

\* Inventory::add
add(its, it) == Append(its, it)

\* items.capacity() after emplace_back on a vector of the given size
grow(cap, size) == IF size = cap THEN 2 * cap ELSE cap

\* Inventory::remove erasing the element after the one pointed at
remove_next(its, p) ==
    LET q == IF p < Len(its) THEN p + 1 ELSE 1
    IN  [i \in 1..(Len(its) - 1) |-> IF i < q THEN its[i] ELSE its[i + 1]]

\* items.erase(pitem), for an iterator at an element
remove(its, p) ==
    [i \in 1..(Len(its) - 1) |-> IF i < p THEN its[i] ELSE its[i + 1]]

\* erase may be given only an iterator at an element
Dereferenceable(its, p) == p \in 1..Len(its)

\* what erase leaves behind: the sequence without the element, or, for an
\* iterator it may not take, whatever the build makes of it
erase_outcomes(its, p) ==
    IF Dereferenceable(its, p) THEN {remove(its, p)} ELSE {its, <<>>}

\* std::find_if(items.begin(), items.end(), pred)
RECURSIVE find_if(_, _, _)
find_if(its, first, p) ==
    IF first = end(its) THEN first
    ELSE IF Holds(p, its[first]) THEN first
    ELSE find_if(its, first + 1, p)

\* std::find_if run from the back: the last match instead of the first
RECURSIVE find_last(_, _, _)
find_last(its, last, p) ==
    IF last = 0 THEN end(its)
    ELSE IF Holds(p, its[last]) THEN last
    ELSE find_last(its, last - 1, p)

\* Inventory::search over find_last
search_last(its, p) ==
    LET q == find_last(its, Len(its), p)
    IN  IF q # end(its) THEN q ELSE NullPtr

\* Inventory::search without the test against end(): no match yields end()
search_unchecked(its, p) == find_if(its, 1, p)

\* Inventory::search
search(its, p) ==
    LET q == find_if(its, 1, p)
    IN  IF q # end(its) THEN q ELSE NullPtr

\* "%16.2f" of a price
Price2f(price) == <<price \div 100, price % 100>>

Row(it) ==
    [product |-> get_product_name(it.id), model |-> it.name,
     price |-> Price2f(it.price), qty |-> it.nstock]

ListHeader == "Product | Model Code | Price (GBP) | Qty."

list(its) ==
    [text |-> ListHeader,
     rows |-> [i \in 1..Len(its) |-> Row(its[i])]]

---------------------------------------------------------------------------
(* Interactive shell.                                                      *)

\* InventoryUI::Option
AddItem      == "a"
RemoveItem   == "r"
EditItem     == "e"
SearchItem   == "s"
ListProducts == "p"
ListItems    == "l"
Quit         == "q"

\* the search modes of handle_search_option
ModeName    == "n"
ModeProduct == "p"

\* the characters the operator types at a menu
Chars == {AddItem, RemoveItem, EditItem, SearchItem, ListProducts,
          ListItems, Quit, ModeName, "x"}

\* the fields the operator types
CategoryInputs == {Invalid - OutOfRange, Invalid, Dresses, Skirts, Count,
                   Count + OutOfRange}
AllCategoryInputs == (Invalid - OutOfRange)..(Count + OutOfRange)
NameInputs  == {"SK-100", "DUP"}
PriceInputs == {2499}
QtyInputs   == {12, 0}

\* the states of the shell (spec 4.3), by where it waits
AddFlow    == {"AddCategory", "AddFields"}
SearchFlow == {"SearchMode", "SearchName", "SearchCategory"}

\* the history variables of a step that leaves the inventory alone
NoInventoryOp ==
    /\ prev' = items
    /\ lastop' = "none"
    /\ UNCHANGED <<added, onlyAdds>>

Init ==
    /\ items = <<>>
    /\ capacity = MAX_ITEMS
    /\ pc = "MainMenu"
    /\ caller = "none"
    /\ item = NoItem
    /\ pitem = NullPtr
    /\ pred = NoPred
    /\ opt = ""
    /\ out = <<Line("Shop Inventory v0.1")>>
    /\ ub = FALSE
    /\ prev = <<>>
    /\ lastop = "none"
    /\ added = <<>>
    /\ onlyAdds = TRUE
    /\ asked = NoPred

\* run: 'a', up to the first prompt of handle_add_option
RunAdd(limit) ==
    /\ pc = "MainMenu"
    /\ Len(items) < limit
    /\ opt' = AddItem
    /\ pc' = "AddCategory"
    /\ caller' = "run"
    /\ item' = NoItem
    /\ out' = <<list_products>>
    /\ UNCHANGED <<items, capacity, pitem, pred, ub>>
    /\ NoInventoryOp
    /\ asked' = NoPred

\* run: 's', up to the prompt of handle_search_option
RunSearch ==
    /\ pc = "MainMenu"
    /\ opt' = SearchItem
    /\ pc' = "SearchMode"
    /\ out' = <<>>
    /\ UNCHANGED <<items, capacity, caller, item, pitem, pred, ub>>
    /\ NoInventoryOp
    /\ asked' = NoPred

\* run: 'p'
RunListProducts ==
    /\ pc = "MainMenu"
    /\ opt' = ListProducts
    /\ pc' = "MainMenu"
    /\ out' = <<list_products>>
    /\ UNCHANGED <<items, capacity, caller, item, pitem, pred, ub>>
    /\ NoInventoryOp
    /\ asked' = NoPred

\* run: 'l'
RunListItems ==
    /\ pc = "MainMenu"
    /\ opt' = ListItems
    /\ pc' = "MainMenu"
    /\ out' = <<list(items)>>
    /\ UNCHANGED <<items, capacity, caller, item, pitem, pred, ub>>
    /\ NoInventoryOp
    /\ asked' = NoPred

\* run: 'q'
RunQuit ==
    /\ pc = "MainMenu"
    /\ opt' = Quit
    /\ pc' = "Exit"
    /\ out' = <<>>
    /\ UNCHANGED <<items, capacity, caller, item, pitem, pred, ub>>
    /\ NoInventoryOp
    /\ asked' = NoPred

\* an unknown command at the main menu ending the program
RunInvalid_quits ==
    /\ pc = "MainMenu"
    /\ \E c \in Chars \ {AddItem, SearchItem, ListProducts, ListItems, Quit} :
           opt' = c
    /\ pc' = "Exit"
    /\ out' = <<Line(MsgInvalid)>>
    /\ UNCHANGED <<items, capacity, caller, item, pitem, pred, ub>>
    /\ NoInventoryOp
    /\ asked' = NoPred

\* run: any other character
RunInvalid ==
    /\ pc = "MainMenu"
    /\ \E c \in Chars \ {AddItem, SearchItem, ListProducts, ListItems, Quit} :
           opt' = c
    /\ pc' = "MainMenu"
    /\ out' = <<Line(MsgInvalid)>>
    /\ UNCHANGED <<items, capacity, caller, item, pitem, pred, ub>>
    /\ NoInventoryOp
    /\ asked' = NoPred

\* the category prompt without its loop: an invalid id is reported and kept
AddCategory_once(cats) ==
    /\ pc = "AddCategory"
    /\ \E pid \in cats :
           /\ item' = [item EXCEPT !.id = pid]
           /\ pc' = "AddFields"
           /\ out' = IF ~is_valid_product(pid) THEN <<Line(MsgInvalid)>>
                                               ELSE <<>>
    /\ UNCHANGED <<items, capacity, caller, pitem, pred, opt, ub>>
    /\ NoInventoryOp
    /\ asked' = NoPred

\* handle_add_option: the category prompt, one turn of the loop
AddCategory(cats) ==
    /\ pc = "AddCategory"
    /\ \E pid \in cats :
           /\ item' = [item EXCEPT !.id = pid]
           /\ IF ~is_valid_product(pid)
              THEN /\ pc' = "AddCategory"
                   /\ out' = <<Line(MsgInvalid), list_products>>
              ELSE /\ pc' = "AddFields"
                   /\ out' = <<>>
    /\ UNCHANGED <<items, capacity, caller, pitem, pred, opt, ub>>
    /\ NoInventoryOp
    /\ asked' = NoPred

\* handle_add_option called from run: model code, price and quantity are
\* read, the item is returned and run adds it
AddFieldsRun ==
    /\ pc = "AddFields"
    /\ caller = "run"
    /\ \E n \in NameInputs, p \in PriceInputs, q \in QtyInputs :
           LET new_item == Item(item.id, n, p, q)
           IN  /\ items' = add(items, new_item)
               /\ added' = IF onlyAdds THEN Append(added, new_item) ELSE added
    /\ capacity' = grow(capacity, Len(items))
    /\ pc' = "MainMenu"
    /\ caller' = "none"
    /\ item' = NoItem
    /\ out' = <<Line(MsgAdded)>>
    /\ prev' = items
    /\ lastop' = "add"
    /\ UNCHANGED <<pitem, pred, opt, ub, onlyAdds>>
    /\ asked' = NoPred


\* handle_add_option called from Edit: the fields are read, the item is
\* returned, the found item is erased and the new one added
AddFieldsEdit ==
    /\ pc = "AddFields"
    /\ caller = "edit"
    /\ \E n \in NameInputs, p \in PriceInputs, q \in QtyInputs,
          erased \in erase_outcomes(items, pitem) :
           /\ items' = add(erased, Item(item.id, n, p, q))
           /\ capacity' = grow(capacity, Len(erased))
    /\ ub' = (ub \/ ~Dereferenceable(items, pitem))
    /\ pc' = "MainMenu"
    /\ caller' = "none"
    /\ item' = NoItem
    /\ pitem' = NullPtr
    /\ pred' = NoPred
    /\ out' = <<>>
    /\ prev' = items
    /\ lastop' = "edit"
    /\ added' = <<>>
    /\ onlyAdds' = FALSE
    /\ UNCHANGED opt
    /\ asked' = NoPred

\* handle_search_option: mode 'n'
SearchModeName ==
    /\ pc = "SearchMode"
    /\ opt' = ModeName
    /\ pc' = "SearchName"
    /\ out' = <<>>
    /\ UNCHANGED <<items, capacity, caller, item, pitem, pred, ub>>
    /\ NoInventoryOp
    /\ asked' = NoPred

\* handle_search_option: mode 'p'
SearchModeProduct ==
    /\ pc = "SearchMode"
    /\ opt' = ModeProduct
    /\ pc' = "SearchCategory"
    /\ out' = <<list_products>>
    /\ UNCHANGED <<items, capacity, caller, item, pitem, pred, ub>>
    /\ NoInventoryOp
    /\ asked' = NoPred

\* an unknown mode asking for the mode again instead of returning
SearchModeInvalid_retries ==
    /\ pc = "SearchMode"
    /\ \E c \in Chars \ {ModeName, ModeProduct} : opt' = c
    /\ pc' = "SearchMode"
    /\ out' = <<Line(MsgInvalid)>>
    /\ UNCHANGED <<items, capacity, caller, item, pitem, pred, ub>>
    /\ NoInventoryOp
    /\ asked' = NoPred

\* handle_search_option: any other mode
SearchModeInvalid ==
    /\ pc = "SearchMode"
    /\ \E c \in Chars \ {ModeName, ModeProduct} : opt' = c
    /\ pc' = "MainMenu"
    /\ out' = <<Line(MsgInvalid)>>
    /\ UNCHANGED <<items, capacity, caller, item, pitem, pred, ub>>
    /\ NoInventoryOp
    /\ asked' = NoPred

\* handle_search_option after the search: the submenu or "not found"
Located(p, q) ==
    /\ asked' = p
    /\ IF q # NullPtr
       THEN /\ pc' = "FoundItemMenu"
            /\ pred' = p
            /\ pitem' = q
            /\ out' = <<>>
       ELSE /\ pc' = "MainMenu"
            /\ pred' = NoPred
            /\ pitem' = NullPtr
            /\ out' = <<Line(MsgNotFound)>>

\* handle_search_option: the model name is read and searched for
SearchName ==
    /\ pc = "SearchName"
    /\ \E n \in NameInputs : Located(ByName(n), search(items, ByName(n)))
    /\ UNCHANGED <<items, capacity, caller, item, opt, ub>>
    /\ NoInventoryOp

\* handle_search_option: the product id is read and searched for
SearchCategory(cats) ==
    /\ pc = "SearchCategory"
    /\ \E prod \in cats : Located(ById(prod), search(items, ById(prod)))
    /\ UNCHANGED <<items, capacity, caller, item, opt, ub>>
    /\ NoInventoryOp

\* Remove without the break: the submenu stays open on the erased handle
FoundRemove_stays ==
    /\ pc = "FoundItemMenu"
    /\ opt' = RemoveItem
    /\ items' \in erase_outcomes(items, pitem)
    /\ ub' = (ub \/ ~Dereferenceable(items, pitem))
    /\ pc' = "FoundItemMenu"
    /\ out' = <<>>
    /\ prev' = items
    /\ lastop' = "remove"
    /\ added' = <<>>
    /\ onlyAdds' = FALSE
    /\ UNCHANGED <<capacity, caller, item, pitem, pred>>
    /\ asked' = NoPred

\* submenu: 'r'
FoundRemove ==
    /\ pc = "FoundItemMenu"
    /\ opt' = RemoveItem
    /\ items' \in erase_outcomes(items, pitem)
    /\ ub' = (ub \/ ~Dereferenceable(items, pitem))
    /\ pc' = "MainMenu"
    /\ pitem' = NullPtr
    /\ pred' = NoPred
    /\ out' = <<>>
    /\ prev' = items
    /\ lastop' = "remove"
    /\ added' = <<>>
    /\ onlyAdds' = FALSE
    /\ UNCHANGED <<capacity, caller, item>>
    /\ asked' = NoPred

\* Edit erasing the found item before the replacement is collected
FoundEdit_erases_first ==
    /\ pc = "FoundItemMenu"
    /\ opt' = EditItem
    /\ items' \in erase_outcomes(items, pitem)
    /\ ub' = (ub \/ ~Dereferenceable(items, pitem))
    /\ pc' = "AddCategory"
    /\ caller' = "edit"
    /\ item' = NoItem
    /\ out' = <<list_products>>
    /\ prev' = items
    /\ lastop' = "remove"
    /\ added' = <<>>
    /\ onlyAdds' = FALSE
    /\ UNCHANGED <<capacity, pitem, pred>>
    /\ asked' = NoPred

\* submenu: 'e', up to the first prompt of handle_add_option
FoundEdit ==
    /\ pc = "FoundItemMenu"
    /\ opt' = EditItem
    /\ pc' = "AddCategory"
    /\ caller' = "edit"
    /\ item' = NoItem
    /\ out' = <<list_products>>
    /\ UNCHANGED <<items, capacity, pitem, pred, ub>>
    /\ NoInventoryOp
    /\ asked' = NoPred

\* submenu 'q' leaving the program instead of the submenu
FoundQuit_exits ==
    /\ pc = "FoundItemMenu"
    /\ opt' = Quit
    /\ pc' = "Exit"
    /\ pitem' = NullPtr
    /\ pred' = NoPred
    /\ out' = <<>>
    /\ UNCHANGED <<items, capacity, caller, item, ub>>
    /\ NoInventoryOp
    /\ asked' = NoPred

\* submenu 'q' not breaking out of the loop
FoundQuit_stays ==
    /\ pc = "FoundItemMenu"
    /\ opt' = Quit
    /\ pc' = "FoundItemMenu"
    /\ out' = <<>>
    /\ UNCHANGED <<items, capacity, caller, item, pitem, pred, ub>>
    /\ NoInventoryOp
    /\ asked' = NoPred

\* submenu 'q' falling through to the erase of Remove
FoundQuit_removes ==
    /\ pc = "FoundItemMenu"
    /\ opt' = Quit
    /\ items' \in erase_outcomes(items, pitem)
    /\ ub' = (ub \/ ~Dereferenceable(items, pitem))
    /\ pc' = "MainMenu"
    /\ pitem' = NullPtr
    /\ pred' = NoPred
    /\ out' = <<>>
    /\ prev' = items
    /\ lastop' = "remove"
    /\ added' = <<>>
    /\ onlyAdds' = FALSE
    /\ UNCHANGED <<capacity, caller, item>>
    /\ asked' = NoPred

\* submenu: 'q'
FoundQuit ==
    /\ pc = "FoundItemMenu"
    /\ opt' = Quit
    /\ pc' = "MainMenu"
    /\ pitem' = NullPtr
    /\ pred' = NoPred
    /\ out' = <<>>
    /\ UNCHANGED <<items, capacity, caller, item, ub>>
    /\ NoInventoryOp
    /\ asked' = NoPred

\* submenu: any other character
FoundInvalid ==
    /\ pc = "FoundItemMenu"
    /\ \E c \in Chars \ {RemoveItem, EditItem, Quit} : opt' = c
    /\ pc' = "FoundItemMenu"
    /\ out' = <<Line(MsgInvalid)>>
    /\ UNCHANGED <<items, capacity, caller, item, pitem, pred, ub>>
    /\ NoInventoryOp
    /\ asked' = NoPred

---------------------------------------------------------------------------
(* Specifications.                                                         *)

\* the steps that read no category, start no add and erase nothing
Browse ==
    \/ RunSearch
    \/ RunListProducts
    \/ RunListItems
    \/ RunQuit
    \/ RunInvalid
    \/ AddFieldsRun
    \/ SearchModeName
    \/ SearchModeProduct
    \/ SearchModeInvalid
    \/ SearchName
    \/ FoundQuit
    \/ FoundInvalid

\* the steps of Remove and Edit
Erase ==
    \/ FoundRemove
    \/ FoundEdit
    \/ AddFieldsEdit

\* the shell from start-up
Next ==
    \/ RunAdd(MaxItems)
    \/ AddCategory(CategoryInputs)
    \/ SearchCategory(CategoryInputs)
    \/ Browse
    \/ Erase

Spec == Init /\ [][Next]_vars

\* the shell from start-up with every category id entered, on a short
\* inventory
NextCatalog ==
    \/ RunAdd(MaxCatalogItems)
    \/ AddCategory(AllCategoryInputs)
    \/ SearchCategory(AllCategoryInputs)
    \/ Browse
    \/ Erase

SpecCatalog == Init /\ [][NextCatalog]_vars

\* the inventory after MAX_ITEMS - 1 adds from start-up, one short of the
\* reservation
Stocked ==
    [i \in 1..(MAX_ITEMS - 1) |->
        IF i % 2 = 1 THEN Item(Skirts, "SK-100", 2499, 12)
                     ELSE Item(Dresses, "DUP", 2499, 0)]

InitFill ==
    /\ items = Stocked
    /\ capacity = MAX_ITEMS
    /\ pc = "MainMenu"
    /\ caller = "none"
    /\ item = NoItem
    /\ pitem = NullPtr
    /\ pred = NoPred
    /\ opt = AddItem
    /\ out = <<Line(MsgAdded)>>
    /\ ub = FALSE
    /\ prev = SubSeq(Stocked, 1, MAX_ITEMS - 2)
    /\ lastop = "add"
    /\ added = Stocked
    /\ onlyAdds = TRUE
    /\ asked = NoPred

\* the shell around the reservation: up to MaxItems more items are added,
\* and the operator removes and edits nothing
NextFill ==
    \/ RunAdd(MAX_ITEMS - 1 + MaxItems)
    \/ AddCategory(CategoryInputs)
    \/ SearchCategory(CategoryInputs)
    \/ Browse

SpecFill == InitFill /\ [][NextFill]_vars

\* the liveness specification keeps the inventory this short
MaxLiveItems == 2

\* the operator goes on typing: every prompt is answered, the category
\* prompt at some time with a valid id, the submenu at some time with one
\* of 'r', 'e', 'q'
OperatorAnswers ==
    /\ WF_vars(AddCategory(CategoryInputs \cap (Dresses..Accessories)))
    /\ WF_vars(AddFieldsRun)
    /\ WF_vars(AddFieldsEdit)
    /\ WF_vars(SearchModeName \/ SearchModeProduct \/ SearchModeInvalid)
    /\ WF_vars(SearchName)
    /\ WF_vars(SearchCategory(CategoryInputs))
    /\ WF_vars(FoundRemove \/ FoundEdit \/ FoundQuit)

NextLive ==
    \/ RunAdd(MaxLiveItems)
    \/ AddCategory(CategoryInputs)
    \/ SearchCategory(CategoryInputs)
    \/ Browse
    \/ Erase

SpecLive == Init /\ [][NextLive]_vars /\ OperatorAnswers

---------------------------------------------------------------------------
(* Properties.                                                             *)

\* the positions of its whose element satisfies p
Matches(its, p) == {i \in 1..Len(its) : Holds(p, its[i])}

\* the least element of a non-empty set of positions
Lowest(S) == CHOOSE i \in S : \A j \in S : i <= j

\* the elements of a sequence
Range(its) == {its[i] : i \in 1..Len(its)}

\* its without the element at position p, written out
Without(its, p) == SubSeq(its, 1, p - 1) \o SubSeq(its, p + 1, Len(its))

\* the last step was 'l' at the main menu: out is the item table
Listed == pc = "MainMenu" /\ opt = ListItems /\ Len(out) = 1
          /\ out[1].text = ListHeader

\* C1: from the empty inventory, as long as only adds happened, the
\* inventory is the added items, each once, in the order of the adds, and
\* the table list prints has exactly their rows in that order.
C1_ListEnumeratesAdds ==
    onlyAdds =>
        /\ items = added
        /\ Listed =>
             /\ Len(out[1].rows) = Len(added)
             /\ \A i \in 1..Len(added) :
                    /\ out[1].rows[i].model = added[i].name
                    /\ out[1].rows[i].product = PRODUCT_NAMES[added[i].id]
                    /\ out[1].rows[i].price =
                           <<added[i].price \div 100, added[i].price % 100>>
                    /\ out[1].rows[i].qty = added[i].nstock

\* three different items were added and then listed
C1_Witness ==
    /\ onlyAdds
    /\ Listed
    /\ Len(added) = 3
    /\ added[1] # added[2] /\ added[2] # added[3] /\ added[1] # added[3]

\* C2: for every inventory and every model name, search by name returns
\* the lowest position whose model code equals the name, or no result if
\* no model code equals it; and the submenu is entered on that position.
C2_SearchByNameFirstMatch ==
    /\ \A n \in NameInputs :
           LET q == search(items, ByName(n))
               M == {i \in 1..Len(items) : items[i].name = n}
           IN  IF M = {} THEN q = NullPtr ELSE q = Lowest(M)
    /\ (pc = "FoundItemMenu" /\ pred.by = "name") =>
           /\ pitem \in 1..Len(items)
           /\ items[pitem].name = pred.name
           /\ \A j \in 1..(pitem - 1) : items[j].name # pred.name

\* a search by name found the second of three items, the third matching too
C2_Witness ==
    /\ pc = "FoundItemMenu"
    /\ pred.by = "name"
    /\ Len(items) = 3
    /\ pitem = 2
    /\ items[3].name = pred.name
    /\ items[3] # items[2]

\* C3: Remove in the submenu, on the item the search located, makes the
\* inventory one shorter and takes out the element at the located
\* position only: the others stay, in their order.
C3_RemoveLocatedOnly ==
    [][(pc = "FoundItemMenu" /\ opt' = RemoveItem) =>
          /\ pitem = search(items, pred)
          /\ pitem \in 1..Len(items)
          /\ Len(items') = Len(items) - 1
          /\ \A i \in 1..(pitem - 1) : items'[i] = items[i]
          /\ \A i \in pitem..(Len(items) - 1) : items'[i] = items[i + 1]]_vars

\* the middle one of three different items was removed
C3_Witness ==
    /\ lastop = "remove"
    /\ Len(prev) = 3
    /\ prev[1] # prev[2] /\ prev[2] # prev[3] /\ prev[1] # prev[3]
    /\ items = <<prev[1], prev[3]>>


\* the step in which Edit erases the found item and appends the new one
EditStep == pc = "AddFields" /\ caller = "edit" /\ pc' = "MainMenu"

\* C4, as stated: after editing the found item X into Y, Y is the last
\* element, Y is not at X's original position, and X no longer appears.
C4_EditMovesToEnd_Original ==
    [][EditStep =>
          /\ Len(items') >= 1
          /\ items'[Len(items')].id = item.id
          /\ Len(items') # pitem
          /\ items[pitem] \notin Range(items')]_vars

\* C4, amended: Edit erases the found item X at its position and appends
\* Y: the size is unchanged, the other items keep their order in front of
\* Y, which is last; Y stands at X's original position exactly when X was
\* the last item, and X's value still appears exactly when Y equals X or
\* another item equal to X was in the inventory.
C4_EditIsEraseThenAppend ==
    [][EditStep =>
          /\ pitem = search(items, pred)
          /\ pitem \in 1..Len(items)
          /\ Len(items') = Len(items)
          /\ SubSeq(items', 1, Len(items) - 1) = Without(items, pitem)
          /\ items'[Len(items')].id = item.id
          /\ items'[Len(items')].name \in NameInputs
          /\ (Len(items') = pitem) <=> (pitem = Len(items))
          /\ (items[pitem] \in Range(items')) <=>
                \/ items'[Len(items')] = items[pitem]
                \/ \E j \in 1..Len(items) : j # pitem /\ items[j] = items[pitem]]_vars

\* the first of three different items was edited into a fourth one
C4_Witness ==
    /\ lastop = "edit"
    /\ Len(prev) = 3
    /\ prev[1] \notin {prev[2], prev[3]}
    /\ prev[2] # prev[3]
    /\ items[3] \notin Range(prev)
    /\ items = <<prev[2], prev[3], items[3]>>

\* C5: with two items of one model code in the inventory, the search by
\* that name locates the one added first (the lower position); removing
\* it leaves the second in the inventory, and the search by the same name
\* then finds that second one.
C5_DuplicateSurvivesRemove ==
    [][(pc = "FoundItemMenu" /\ opt' = RemoveItem /\ pred.by = "name"
        /\ Cardinality(Matches(items, pred)) >= 2) =>
          LET first  == Lowest(Matches(items, pred))
              second == Lowest(Matches(items, pred) \ {first})
          IN  /\ pitem = first
              /\ items'[second - 1] = items[second]
              /\ search(items', pred) = second - 1
              /\ \A j \in 1..(second - 2) : items'[j].name # pred.name]_vars

\* of two items named "DUP" that differ otherwise, the first was removed
\* and the second is what a search for "DUP" now finds
C5_Witness ==
    /\ lastop = "remove"
    /\ \E i, j \in 1..Len(prev) :
           /\ i < j
           /\ Matches(prev, ByName("DUP")) = {i, j}
           /\ prev[i] # prev[j]
           /\ items = Without(prev, i)
           /\ search(items, ByName("DUP")) = j - 1
           /\ items[j - 1] = prev[j]

\* C6: in an inventory with no item of model code n, adding an item with
\* model code n appends it, list shows it as a row and the search by n
\* finds it; removing the item so found gives back the inventory from
\* before the add (from empty: one row, then none).
C6_AddSearchRemoveRoundTrip ==
    [][/\ (pc = "AddFields" /\ caller = "run"
           /\ Matches(items, ByName(items'[Len(items')].name)) = {}) =>
              LET new == items'[Len(items')]
              IN  /\ Len(items') = Len(items) + 1
                  /\ SubSeq(items', 1, Len(items)) = items
                  /\ search(items', ByName(new.name)) = Len(items')
                  /\ Len(list(items').rows) = Len(items) + 1
                  /\ list(items').rows[Len(items')].model = new.name
                  /\ list(items').rows[Len(items')].product
                         = PRODUCT_NAMES[new.id]
       /\ (pc = "FoundItemMenu" /\ opt' = RemoveItem /\ pred.by = "name"
           /\ Len(items) >= 1
           /\ pred.name = items[Len(items)].name
           /\ Matches(SubSeq(items, 1, Len(items) - 1), pred) = {}) =>
              /\ pitem = Len(items)
              /\ items' = SubSeq(items, 1, Len(items) - 1)
              /\ Len(list(items').rows) = Len(items) - 1]_vars

\* Skirts SK-100 24.99 12, the only item, was found by name and removed
C6_Witness ==
    /\ lastop = "remove"
    /\ prev = <<Item(Skirts, "SK-100", 2499, 12)>>
    /\ items = <<>>
    /\ list(prev).rows = <<[product |-> "Skirts", model |-> "SK-100",
                            price |-> <<24, 99>>, qty |-> 12]>>
    /\ list(items).rows = <<>>


\* the ten categories the enumeration declares
Declared == {Dresses, CropTops, SweatshirtsHoodies, Blouses, Skirts, Shorts,
             Jeans, MatchingSets, Swimwear, Accessories}

\* the category prompt turned the entered id down
CategoryRejected ==
    pc = "AddCategory" /\ Len(out) = 2 /\ out[1].text = MsgInvalid

\* C7: is_valid_product holds exactly of the ten declared categories, the
\* ids 0..9: it fails for Invalid, for Count and for every id beyond them;
\* the category prompt lets the declared ones through and no other.
C7_ValidIffDeclared ==
    /\ Declared = 0..9
    /\ \A p \in AllCategoryInputs : is_valid_product(p) <=> p \in Declared
    /\ ~is_valid_product(Invalid)
    /\ ~is_valid_product(Count)
    /\ pc = "AddFields" => item.id \in Declared
    /\ CategoryRejected => item.id \notin Declared

\* the category prompt turned down Count
C7_Witness == CategoryRejected /\ item.id = Count

\* C8: get_product_name gives the display string of the category, which
\* is not empty, for every valid category, and the empty string for every
\* other id; it never reads PRODUCT_NAMES outside 0..9.
C8_NameOrEmpty ==
    /\ get_product_name(Dresses) = "Dresses"
    /\ \A p \in AllCategoryInputs :
           /\ get_product_name(p) # OutOfBounds
           /\ is_valid_product(p) =>
                  /\ p \in 0..9
                  /\ get_product_name(p) = PRODUCT_NAMES[p]
                  /\ get_product_name(p) # ""
           /\ ~is_valid_product(p) => get_product_name(p) = ""
    /\ Listed => \A i \in 1..Len(items) :
                     /\ out[1].rows[i].product = PRODUCT_NAMES[items[i].id]
                     /\ out[1].rows[i].product # ""

\* an Accessories item, the last category of the table, was listed by name
C8_Witness ==
    /\ Listed
    /\ Len(items) = 1
    /\ items[1].id = Accessories
    /\ out[1].rows[1].product = "Accessories"

\* C9: add succeeds on an inventory of any size, past the MAX_ITEMS
\* reservation too, and for an item equal to one already there: the size
\* grows by one, the added item is last and the items before are as they
\* were, in order.
C9_AddAppendsPastReservation ==
    [][(pc = "AddFields" /\ caller = "run") =>
          /\ pc' = "MainMenu"
          /\ Len(items') = Len(items) + 1
          /\ SubSeq(items', 1, Len(items)) = items
          /\ items'[Len(items')].id = item.id
          /\ items'[Len(items')].name \in NameInputs
          /\ items'[Len(items')].nstock \in QtyInputs
          /\ capacity' >= Len(items')]_vars

\* the item added past the reservation of MAX_ITEMS equals an earlier one
C9_Witness ==
    /\ lastop = "add"
    /\ Len(items) > MAX_ITEMS
    /\ capacity > MAX_ITEMS
    /\ prev = SubSeq(items, 1, Len(items) - 1)
    /\ items[Len(items)] \in Range(prev)
    /\ items[Len(items)] # items[Len(items) - 1]

\* C10: Exit is entered only from the main menu on 'q' and is never left;
\* 'q' in the submenu leads to the main menu, and no step of the add flow
\* or of the search flow leads to Exit.
C10_ExitOnlyByMainMenuQuit ==
    /\ [][/\ (pc # "Exit" /\ pc' = "Exit") =>
                (pc = "MainMenu" /\ opt' = Quit)
          /\ (pc = "Exit") => (pc' = "Exit")
          /\ (pc = "FoundItemMenu" /\ opt' = Quit) => (pc' = "MainMenu")
          /\ (pc \in AddFlow \cup SearchFlow) => (pc' # "Exit")]_vars
    /\ [](pc = "Exit" => ~ENABLED Next)

\* the shell has exited, with items in stock, after 'q' at the main menu
C10_Witness == pc = "Exit" /\ opt = Quit /\ Len(items) = 2


\* the steps in which a search runs
SearchStep == pc \in {"SearchName", "SearchCategory"}

\* C11: with a recognised mode the search leads into the submenu exactly
\* when some item satisfies the predicate searched for; when none does, on
\* an empty inventory too, "not found" is printed and the shell is back at
\* the main menu; the inventory is the same either way.
C11_FoundIffSomeItemMatches ==
    [][SearchStep =>
          /\ asked'.by = (IF pc = "SearchName" THEN "name" ELSE "id")
          /\ items' = items
          /\ pc' \in {"FoundItemMenu", "MainMenu"}
          /\ (pc' = "FoundItemMenu") <=> (Matches(items, asked') # {})
          /\ (pc' = "FoundItemMenu") =>
                 /\ pitem' \in Matches(items, asked')
                 /\ pred' = asked'
          /\ (pc' = "MainMenu") =>
                 /\ out' = <<Line(MsgNotFound)>>
                 /\ pitem' = NullPtr]_vars

\* a name no item has was searched for in an inventory of two: not found
C11_Witness ==
    /\ pc = "MainMenu"
    /\ asked.by = "name"
    /\ Len(items) = 2
    /\ Matches(items, asked) = {}
    /\ out = <<Line(MsgNotFound)>>
    /\ prev = items

\* C12: a search mode other than 'n' and 'p' leads straight back to the
\* main menu: the mode is not asked for again, no search runs, the submenu
\* is not entered and the inventory stays as it is.
C12_UnknownModeReturns ==
    [][(pc = "SearchMode" /\ opt' \notin {ModeName, ModeProduct}) =>
          /\ pc' = "MainMenu"
          /\ out' = <<Line(MsgInvalid)>>
          /\ asked' = NoPred
          /\ pred' = NoPred
          /\ pitem' = NullPtr
          /\ items' = items]_vars

\* 'q' was typed as the search mode: reported as invalid, back at the
\* main menu with the stock untouched
C12_Witness ==
    /\ pc = "MainMenu"
    /\ opt = Quit
    /\ out = <<Line(MsgInvalid)>>
    /\ Len(items) = 2
    /\ prev = items

\* C13: the add flow is left only with a valid category: an invalid id
\* keeps the shell at the category prompt with the inventory unchanged,
\* the fields are asked for only after a valid id, and the add flow, from
\* the main menu or from Edit, ends only in the step that has read model
\* code, price and quantity for an item of that valid category.
C13_AddFlowNeedsValidCategory ==
    [][/\ (pc = "AddCategory") =>
              /\ items' = items
              /\ caller' = caller
              /\ item'.id \notin Declared =>
                     /\ pc' = "AddCategory"
                     /\ Len(out') = 2
                     /\ out'[1].text = MsgInvalid
              /\ item'.id \in Declared => pc' = "AddFields"
       /\ (pc' = "AddFields" /\ pc # "AddFields") =>
              (pc = "AddCategory" /\ item'.id \in Declared)
       /\ (pc \in AddFlow /\ pc' \notin AddFlow) =>
              /\ pc = "AddFields"
              /\ pc' = "MainMenu"
              /\ caller \in {"run", "edit"}
              /\ item.id \in Declared
              /\ Len(items') >= 1
              /\ items'[Len(items')].id = item.id
              /\ items'[Len(items')].name \in NameInputs
              /\ items'[Len(items')].price \in PriceInputs
              /\ items'[Len(items')].nstock \in QtyInputs]_vars

\* an id below Invalid was turned down at the category prompt of an add
\* started from the main menu
C13_Witness ==
    /\ pc = "AddCategory"
    /\ caller = "run"
    /\ item.id = Invalid - OutOfRange
    /\ Len(out) = 2
    /\ out[1].text = MsgInvalid
    /\ Len(items) = 1


\* the submenu read a character that is none of 'r', 'e', 'q'
SubmenuUnknown ==
    pc = "FoundItemMenu" /\ opt' \notin {RemoveItem, EditItem, Quit}

\* C14: in the submenu only Remove and Edit come to modify the inventory:
\* 'q' leads to the main menu with the inventory as it was, and any other
\* character than 'r', 'e', 'q' stays in the submenu with the inventory
\* and the found item as they were.
C14_SubmenuQuitAndUnknownKeepStock ==
    [][(pc = "FoundItemMenu") =>
          /\ (opt' = Quit) => (pc' = "MainMenu" /\ items' = items)
          /\ SubmenuUnknown =>
                 /\ pc' = "FoundItemMenu"
                 /\ items' = items
                 /\ pitem' = pitem
                 /\ pred' = pred
                 /\ out' = <<Line(MsgInvalid)>>
          /\ (items' # items) => (opt' = RemoveItem)
          /\ (opt' = EditItem) => (pc' = "AddCategory" /\ caller' = "edit")
          /\ opt' \in Chars]_vars

\* 'a' was typed in the submenu opened on the second of three items: the
\* submenu is still open on it
C14_Witness ==
    /\ pc = "FoundItemMenu"
    /\ opt = AddItem
    /\ out = <<Line(MsgInvalid)>>
    /\ Len(items) = 3
    /\ pitem = 2
    /\ prev = items

\* C15: 'p', 'l' and every unknown command at the main menu stay at the
\* main menu and leave the inventory as it is; the inventory changes only
\* in the last step of an add started by 'a', and in Remove or the last
\* step of Edit, both reached through a search.
C15_MainMenuListingsKeepStock ==
    [][/\ (pc = "MainMenu" /\ opt' \notin {AddItem, SearchItem, Quit}) =>
              (pc' = "MainMenu" /\ items' = items)
       /\ (pc = "MainMenu") => (items' = items)
       /\ (items' # items) =>
              \/ pc = "AddFields" /\ caller = "run" /\ opt = AddItem
              \/ pc = "AddFields" /\ caller = "edit" /\ opt = EditItem
                    /\ pitem # NullPtr
              \/ pc = "FoundItemMenu" /\ opt' = RemoveItem
                    /\ pitem # NullPtr]_vars

\* 'p' at the main menu with two items in stock: the product list is
\* printed, the stock is as it was
C15_Witness ==
    /\ pc = "MainMenu"
    /\ opt = ListProducts
    /\ out = <<list_products>>
    /\ Len(items) = 2
    /\ prev = items

\* the erase of the found item happens in this step
EraseStep ==
    \/ pc = "FoundItemMenu" /\ opt' = RemoveItem
    \/ pc = "AddFields" /\ caller = "edit"

\* C16: every Inventory::remove is given the handle a successful search
\* returned, with no add and no remove on the inventory since that search,
\* and a search is followed by at most one remove: the handle is dropped
\* with the remove. So erase never gets an empty, out-of-range or consumed
\* handle.
C16_RemoveTakesFreshHandle ==
    /\ [](ub = FALSE)
    /\ [](pitem # NullPtr =>
              /\ pc \in {"FoundItemMenu"} \cup AddFlow
              /\ pc \in AddFlow => caller = "edit"
              /\ pitem = search(items, pred)
              /\ Dereferenceable(items, pitem)
              /\ Holds(pred, items[pitem]))
    /\ [][EraseStep =>
             /\ pitem # NullPtr
             /\ Dereferenceable(items, pitem)
             /\ pitem' = NullPtr
             /\ pc' = "MainMenu"]_vars

\* the last of three items was removed through its handle, which is gone
C16_Witness ==
    /\ lastop = "remove"
    /\ ub = FALSE
    /\ pitem = NullPtr
    /\ Len(prev) = 3
    /\ items = SubSeq(prev, 1, 2)

\* the add flow that Edit runs is in progress
Editing == caller = "edit" /\ pc \in AddFlow

\* C17: Edit collects the replacement before it deletes: while its add
\* flow runs, through every invalid category too, the inventory is as it
\* was and holds the found item at its position; the found item is erased
\* and the replacement appended only in the step that ends the add flow,
\* and the inventory is then as long as before the Edit.
C17_EditCollectsBeforeErase ==
    /\ [](Editing =>
              /\ pitem \in 1..Len(items)
              /\ Holds(pred, items[pitem])
              /\ pitem = search(items, pred))
    /\ [][/\ (pc = "FoundItemMenu" /\ opt' = EditItem) =>
                 (items' = items /\ pitem' = pitem)
          /\ (Editing /\ pc' \in AddFlow) =>
                 (items' = items /\ pitem' = pitem /\ pred' = pred)
          /\ (Editing /\ pc' \notin AddFlow) =>
                 /\ pc = "AddFields"
                 /\ Len(items') = Len(items)
                 /\ SubSeq(items', 1, Len(items) - 1) = Without(items, pitem)
                 /\ items'[Len(items')].id = item.id]_vars

\* inside Edit of the second of three items an invalid category was just
\* turned down: the item is still in its place
C17_Witness ==
    /\ Editing
    /\ pc = "AddCategory"
    /\ item.id = Count
    /\ out[1].text = MsgInvalid
    /\ Len(items) = 3
    /\ pitem = 2


\* C18: for every inventory and every category id, the search by category
\* returns the lowest position whose category is that id, or no result if
\* no item has it; for an id that is no valid category the result is
\* always "not found".
C18_SearchByCategoryFirstMatch ==
    /\ [](\A prod \in AllCategoryInputs :
              LET q == search(items, ById(prod))
                  M == {i \in 1..Len(items) : items[i].id = prod}
              IN  /\ IF M = {} THEN q = NullPtr ELSE q = Lowest(M)
                  /\ prod \notin Declared => q = NullPtr)
    /\ []((pc = "FoundItemMenu" /\ pred.by = "id") =>
              /\ pitem \in 1..Len(items)
              /\ items[pitem].id = pred.id
              /\ pred.id \in Declared
              /\ \A j \in 1..(pitem - 1) : items[j].id # pred.id)
    /\ [][(pc = "SearchCategory" /\ asked'.id \notin Declared) =>
              /\ pc' = "MainMenu"
              /\ out' = <<Line(MsgNotFound)>>
              /\ items' = items]_vars

\* Count was searched for as a category in an inventory of three: not found
C18_Witness ==
    /\ pc = "MainMenu"
    /\ asked = ById(Count)
    /\ out = <<Line(MsgNotFound)>>
    /\ Len(items) = 3
    /\ items[1].id # items[2].id

\* C19: every item in the inventory has a valid category, one of the
\* declared ten: items come in only in the last step of the add flow,
\* started from the main menu or from Edit, and that step stores the
\* category the prompt accepted.
C19_StockedCategoriesValid ==
    /\ [](\A i \in 1..Len(items) : items[i].id \in Declared)
    /\ [](pc = "AddFields" => item.id \in Declared)
    /\ [][(\E i \in 1..Len(items') : items'[i] \notin Range(items)) =>
              /\ pc = "AddFields"
              /\ caller \in {"run", "edit"}
              /\ items'[Len(items')].id = item.id]_vars

\* an Edit has put an Accessories item in place of the only item, after
\* the ids around the valid range were all on offer at the prompt
C19_Witness ==
    /\ lastop = "edit"
    /\ Len(items) = 1
    /\ items[1].id = Accessories
    /\ prev[1].id = Dresses

\* C20: the shell does not get stuck away from the main menu: if the
\* operator at some time enters a valid category in the add flow and one
\* of 'r', 'e', 'q' in the submenu, every 'a' and every 's' at the main
\* menu leads back to the main menu; the only steps that stay at a prompt
\* other than the main menu are the invalid category and the unknown
\* submenu selection.
C20_BackToMainMenu ==
    /\ (pc \in AddFlow \cup SearchFlow \cup {"FoundItemMenu"})
           ~> (pc = "MainMenu")
    /\ [][(pc' = pc /\ pc # "MainMenu") =>
              \/ pc = "AddCategory" /\ item'.id \notin Declared
              \/ SubmenuUnknown]_vars
    /\ [][(pc = "MainMenu" /\ opt' \in {AddItem, SearchItem}) =>
              pc' \in {"AddCategory", "SearchMode"}]_vars

\* the submenu has just turned down an unknown selection, after a search
\* by category: one of the two loops the operator has to end
C20_Witness ==
    /\ pc = "FoundItemMenu"
    /\ pred.by = "id"
    /\ out = <<Line(MsgInvalid)>>
    /\ opt = SearchItem
    /\ Len(items) = 2

====
